---- MODULE Spec2Model ----
(***************************************************************************)
(* A model of src/app.py: the Flask backend that turns discussion notes    *)
(* into phrase cards (extract_keywords, with build_prompt and the response *)
(* normalizer that is the parsing block of extract_keywords) and that      *)
(* transcribes uploaded audio (transcribe).                                *)
(*                                                                         *)
(* Text is a sequence of characters, each character a one-character        *)
(* string.  Three characters have no literal in a TLA+ string and are      *)
(* written as named atoms: the backtick is "BQ", backspace is "<BS>" and   *)
(* form feed is "<FF>".                                                    *)
(*                                                                         *)
(* A Python value obtained from json.loads is a record [t, v]:             *)
(*   t = "list"  v = the sequence of element values                        *)
(*   t = "dict"  v = the sequence of [k |-> text, val |-> value] items in  *)
(*               insertion order, keys unique                              *)
(*   t = "str"   v = the text                                              *)
(*   t = "int"   v = the decimal digits of the integer, sign first         *)
(*   t = "true" / "false" / "null"  v = <<>>                               *)
(***************************************************************************)
EXTENDS Integers, Sequences, FiniteSets, TLC

\* --------------------------------------------------------------- bounds

\* The longest JSON array, and the longest card list, the remote model sends.
MaxItems == 2

\* The most lines of free text the remote model sends.
MaxLines == 2

\* ------------------------------------------------------- text primitives

BQ == "BQ"

\* "```", the fence delimiter of lines 213 and 217.
FENCE == <<BQ, BQ, BQ>>

\* The characters str.strip() removes (str.isspace), among those of the model.
PyWhitespace == {" ", "\t", "\n", "\r", "<FF>"}

\* The characters json.loads skips between tokens.
JsonWhitespace == {" ", "\t", "\n", "\r"}

\* The characters json.loads refuses, unescaped, inside a string (strict mode).
ControlChars == {"\t", "\n", "\r", "<FF>", "<BS>"}

\* The line boundaries of str.splitlines(), among the characters of the model.
LineBreaks == {"\n", "\r", "<FF>"}

\* The argument of line.lstrip("・-*") at line 243.
BulletChars == {"・", "-", "*"}

Digits == {"0", "1", "2", "3", "4", "5", "6", "7", "8", "9"}

HexDigits == Digits \cup {"a", "b", "c", "d", "e", "f", "A", "B", "C", "D", "E", "F"}

SetMin(S) == CHOOSE x \in S : \A y \in S : x <= y

SetMax(S) == CHOOSE x \in S : \A y \in S : x >= y

RECURSIVE Concat(_)
\* The concatenation of a sequence of texts.
Concat(ss) == IF ss = <<>> THEN <<>> ELSE Head(ss) \o Concat(Tail(ss))

\* s[i:] of Python, with i counted from 1.
From(s, i) == IF i > Len(s) THEN <<>> ELSE SubSeq(s, i, Len(s))

\* str.lstrip(chars): the leading characters that are in cs removed.
LStrip(s, cs) ==
  IF \A i \in 1..Len(s) : s[i] \in cs THEN <<>>
  ELSE From(s, CHOOSE i \in 1..Len(s) : s[i] \notin cs /\ \A j \in 1..(i - 1) : s[j] \in cs)

\* str.rstrip(chars): the trailing characters that are in cs removed.
RStrip(s, cs) ==
  IF \A i \in 1..Len(s) : s[i] \in cs THEN <<>>
  ELSE SubSeq(s, 1, CHOOSE i \in 1..Len(s) :
                      s[i] \notin cs /\ \A j \in (i + 1)..Len(s) : s[j] \in cs)

\* str.strip(): whitespace removed at both ends.
Strip(s) == RStrip(LStrip(s, PyWhitespace), PyWhitespace)

\* str.startswith(p).
StartsWith(s, p) == Len(s) >= Len(p) /\ SubSeq(s, 1, Len(p)) = p

\* Whether p occurs in s at index i.
OccursAt(s, p, i) == i >= 1 /\ i + Len(p) - 1 <= Len(s) /\ SubSeq(s, i, i + Len(p) - 1) = p

\* The indices at which character c occurs in s.
IndicesOf(s, c) == {i \in 1..Len(s) : s[i] = c}

\* str.split(c, 1) for a one-character separator: one part when c does not
\* occur, otherwise the parts before and after its first occurrence.
SplitFirst(s, c) ==
  LET at == IndicesOf(s, c)
  IN  IF at = {} THEN <<s>>
      ELSE <<SubSeq(s, 1, SetMin(at) - 1), From(s, SetMin(at) + 1)>>

\* str.rsplit(p, 1)[0]: what precedes the last occurrence of p, all of s when
\* p does not occur.
RSplitHead(s, p) ==
  LET at == {i \in 1..Len(s) : OccursAt(s, p, i)}
  IN  IF at = {} THEN s ELSE SubSeq(s, 1, SetMax(at) - 1)

\* The indices of s that end a line: a line boundary, except the "\r" of a
\* "\r\n" pair, which ends the line together with its "\n".
LineEnds(s) ==
  {i \in 1..Len(s) : s[i] \in LineBreaks /\ ~(s[i] = "\r" /\ i < Len(s) /\ s[i + 1] = "\n")}

RECURSIVE SplitLinesFrom(_, _, _)
\* The loop of str.splitlines(): the lines of s from index start on.
SplitLinesFrom(s, start, acc) ==
  IF start > Len(s) THEN acc
  ELSE LET ends == {i \in LineEnds(s) : i >= start}
       IN  IF ends = {} THEN Append(acc, From(s, start))
           ELSE LET e    == SetMin(ends)
                    last == IF e > start /\ s[e] = "\n" /\ s[e - 1] = "\r" THEN e - 2 ELSE e - 1
                IN  SplitLinesFrom(s, e + 1, Append(acc, SubSeq(s, start, last)))

\* str.splitlines(): the lines of s without their line breaks; a final line
\* break opens no empty last line.
SplitLines(s) == SplitLinesFrom(s, 1, <<>>)

\* ------------------------------------------------------------ json.loads

V(t, v) == [t |-> t, v |-> v]

\* A parse step that succeeded with value v and continues at index pos.
Parsed(v, pos) == [ok |-> TRUE, v |-> v, pos |-> pos]

\* A parse step that raised json.JSONDecodeError.
DecodeError == [ok |-> FALSE, v |-> <<>>, pos |-> 0]

RECURSIVE SkipWS(_, _)
\* The index of the first character at or after i that is not JSON whitespace.
SkipWS(s, i) == IF i <= Len(s) /\ s[i] \in JsonWhitespace THEN SkipWS(s, i + 1) ELSE i

\* The decoder's table of one-character escapes.
BACKSLASH ==
  ("\"" :> "\"") @@ ("\\" :> "\\") @@ ("/" :> "/") @@ ("b" :> "<BS>") @@
  ("f" :> "<FF>") @@ ("n" :> "\n") @@ ("r" :> "\r") @@ ("t" :> "\t")

\* The character of a \uXXXX escape: the code points of the model's characters
\* are decoded to them, any other code point is a character of its own.
UnicodeChar(h) ==
  LET low == [i \in 1..4 |->
                CASE h[i] = "A" -> "a" [] h[i] = "B" -> "b" [] h[i] = "C" -> "c"
                  [] h[i] = "D" -> "d" [] h[i] = "E" -> "e" [] h[i] = "F" -> "f"
                  [] OTHER -> h[i]]
  IN  CASE low = <<"3", "0", "f", "b">> -> "・"
        [] low = <<"0", "0", "2", "0">> -> " "
        [] low = <<"0", "0", "0", "a">> -> "\n"
        [] low = <<"0", "0", "2", "2">> -> "\""
        [] low = <<"0", "0", "5", "c">> -> "\\"
        [] OTHER -> "\\u" \o low[1] \o low[2] \o low[3] \o low[4]

RECURSIVE ScanString(_, _, _)
\* py_scanstring: i is the index after the opening quote, acc the characters
\* decoded so far.
ScanString(s, i, acc) ==
  IF i > Len(s) THEN DecodeError
  ELSE IF s[i] = "\"" THEN Parsed(V("str", acc), i + 1)
  ELSE IF s[i] = "\\" THEN
         IF i + 1 > Len(s) THEN DecodeError
         ELSE IF s[i + 1] = "u" THEN
                IF i + 5 <= Len(s) /\ \A k \in 2..5 : s[i + k] \in HexDigits
                THEN ScanString(s, i + 6, Append(acc, UnicodeChar(SubSeq(s, i + 2, i + 5))))
                ELSE DecodeError
         ELSE IF s[i + 1] \in DOMAIN BACKSLASH
                THEN ScanString(s, i + 2, Append(acc, BACKSLASH[s[i + 1]]))
         ELSE DecodeError
  ELSE IF s[i] \in ControlChars THEN DecodeError
  ELSE ScanString(s, i + 1, Append(acc, s[i]))

RECURSIVE DigitsEnd(_, _)
\* The index after the run of digits that starts at i.
DigitsEnd(s, i) == IF i <= Len(s) /\ s[i] \in Digits THEN DigitsEnd(s, i + 1) ELSE i

\* NUMBER_RE of json.scanner, its integer part -?(0|[1-9][0-9]*): the index
\* after the integer that starts at i, or 0 when none does.  The answers of
\* the remote model (Contents) hold no fraction, exponent, NaN or Infinity,
\* which json.loads would read as floats.
IntegerEnd(s, i) ==
  LET d == IF i <= Len(s) /\ s[i] = "-" THEN i + 1 ELSE i
  IN  IF d > Len(s) \/ s[d] \notin Digits THEN 0
      ELSE IF s[d] = "0" THEN d + 1
      ELSE DigitsEnd(s, d)

\* int(lexeme) as str() shows it: "-0" is 0.
IntValue(lexeme) == IF lexeme = <<"-", "0">> THEN V("int", <<"0">>) ELSE V("int", lexeme)

\* dict[k] = val: a repeated key keeps its place and takes the new value.
DictSet(items, k, val) ==
  IF \E i \in 1..Len(items) : items[i].k = k
  THEN [i \in 1..Len(items) |-> IF items[i].k = k THEN [k |-> k, val |-> val] ELSE items[i]]
  ELSE Append(items, [k |-> k, val |-> val])

RECURSIVE ScanOnce(_, _), JSONArray(_, _, _), JSONObject(_, _, _)

\* scan_once of json.scanner: the value that starts at index i.
ScanOnce(s, i) ==
  IF i > Len(s) THEN DecodeError
  ELSE IF s[i] = "\"" THEN ScanString(s, i + 1, <<>>)
  ELSE IF s[i] = "{" THEN
         LET j == SkipWS(s, i + 1)
         IN  IF j <= Len(s) /\ s[j] = "}" THEN Parsed(V("dict", <<>>), j + 1)
             ELSE JSONObject(s, j, <<>>)
  ELSE IF s[i] = "[" THEN
         LET j == SkipWS(s, i + 1)
         IN  IF j <= Len(s) /\ s[j] = "]" THEN Parsed(V("list", <<>>), j + 1)
             ELSE JSONArray(s, j, <<>>)
  ELSE IF OccursAt(s, <<"n", "u", "l", "l">>, i) THEN Parsed(V("null", <<>>), i + 4)
  ELSE IF OccursAt(s, <<"t", "r", "u", "e">>, i) THEN Parsed(V("true", <<>>), i + 4)
  ELSE IF OccursAt(s, <<"f", "a", "l", "s", "e">>, i) THEN Parsed(V("false", <<>>), i + 5)
  ELSE IF IntegerEnd(s, i) # 0
         THEN Parsed(IntValue(SubSeq(s, i, IntegerEnd(s, i) - 1)), IntegerEnd(s, i))
  ELSE DecodeError

\* JSONArray of json.decoder: i is the index of the next element, acc the
\* elements read so far.
JSONArray(s, i, acc) ==
  LET r == ScanOnce(s, i)
  IN  IF ~r.ok THEN DecodeError
      ELSE LET j == SkipWS(s, r.pos)
           IN  IF j > Len(s) THEN DecodeError
               ELSE IF s[j] = "]" THEN Parsed(V("list", Append(acc, r.v)), j + 1)
               ELSE IF s[j] = "," THEN JSONArray(s, SkipWS(s, j + 1), Append(acc, r.v))
               ELSE DecodeError

\* JSONObject of json.decoder: i is the index where the next key must open,
\* acc the items read so far.
JSONObject(s, i, acc) ==
  IF i > Len(s) \/ s[i] # "\"" THEN DecodeError
  ELSE LET key == ScanString(s, i + 1, <<>>)
       IN  IF ~key.ok THEN DecodeError
           ELSE LET c == SkipWS(s, key.pos)
                IN  IF c > Len(s) \/ s[c] # ":" THEN DecodeError
                    ELSE LET r == ScanOnce(s, SkipWS(s, c + 1))
                         IN  IF ~r.ok THEN DecodeError
                             ELSE LET j     == SkipWS(s, r.pos)
                                      items == DictSet(acc, key.v.v, r.v)
                                  IN  IF j > Len(s) THEN DecodeError
                                      ELSE IF s[j] = "}" THEN Parsed(V("dict", items), j + 1)
                                      ELSE IF s[j] = "," THEN JSONObject(s, SkipWS(s, j + 1), items)
                                      ELSE DecodeError

\* json.loads(s): the one value of the document, which nothing but whitespace
\* may surround; pos is unused in the result.
loads(s) ==
  LET r == ScanOnce(s, SkipWS(s, 1))
  IN  IF r.ok /\ SkipWS(s, r.pos) = Len(s) + 1 THEN Parsed(r.v, 0) ELSE DecodeError

\* ------------------------------------------------------ str() and repr()

RECURSIVE JoinWith(_, _)
\* sep.join(ss).
JoinWith(ss, sep) ==
  IF ss = <<>> THEN <<>>
  ELSE IF Len(ss) = 1 THEN ss[1]
  ELSE ss[1] \o sep \o JoinWith(Tail(ss), sep)

\* repr() of a str: single quotes, unless the text holds one and no double
\* quote; the quote, the backslash and the control characters are escaped.
ReprStr(s) ==
  LET q == IF "'" \in {s[i] : i \in 1..Len(s)} /\ "\"" \notin {s[i] : i \in 1..Len(s)}
           THEN "\"" ELSE "'"
      esc(c) == CASE c = "\\" -> <<"\\", "\\">>
                  [] c = q -> <<"\\", q>>
                  [] c = "\n" -> <<"\\", "n">>
                  [] c = "\r" -> <<"\\", "r">>
                  [] c = "\t" -> <<"\\", "t">>
                  [] c = "<FF>" -> <<"\\", "x", "0", "c">>
                  [] c = "<BS>" -> <<"\\", "x", "0", "8">>
                  [] OTHER -> <<c>>
  IN  <<q>> \o Concat([i \in 1..Len(s) |-> esc(s[i])]) \o <<q>>

RECURSIVE PyRepr(_)
\* repr(value) for a value json.loads returns.
PyRepr(x) ==
  CASE x.t = "str" -> ReprStr(x.v)
    [] x.t = "int" -> x.v
    [] x.t = "null" -> <<"N", "o", "n", "e">>
    [] x.t = "true" -> <<"T", "r", "u", "e">>
    [] x.t = "false" -> <<"F", "a", "l", "s", "e">>
    [] x.t = "list" ->
         <<"[">> \o JoinWith([i \in 1..Len(x.v) |-> PyRepr(x.v[i])], <<",", " ">>) \o <<"]">>
    [] x.t = "dict" ->
         <<"{">> \o JoinWith([i \in 1..Len(x.v) |->
                                ReprStr(x.v[i].k) \o <<":", " ">> \o PyRepr(x.v[i].val)],
                             <<",", " ">>) \o <<"}">>

\* str(value): a str is itself, anything else is its repr.
PyStr(x) == IF x.t = "str" THEN x.v ELSE PyRepr(x)

\* ------------------------------------------------------------ json.dumps

\* The JSON string literal of a text, as json.dumps writes it (ensure_ascii).
DumpsStr(s) ==
  LET esc(c) == CASE c = "\"" -> <<"\\", "\"">>
                  [] c = "\\" -> <<"\\", "\\">>
                  [] c = "\n" -> <<"\\", "n">>
                  [] c = "\r" -> <<"\\", "r">>
                  [] c = "\t" -> <<"\\", "t">>
                  [] c = "<BS>" -> <<"\\", "b">>
                  [] c = "<FF>" -> <<"\\", "f">>
                  [] c = "・" -> <<"\\", "u", "3", "0", "f", "b">>
                  [] OTHER -> <<c>>
  IN  <<"\"">> \o Concat([i \in 1..Len(s) |-> esc(s[i])]) \o <<"\"">>

RECURSIVE Dumps(_, _)
\* The JSON text of a value; sp is the text written after "," and ":" (one
\* space by default, nothing in the compact form).
Dumps(x, sp) ==
  CASE x.t = "str" -> DumpsStr(x.v)
    [] x.t = "int" -> x.v
    [] x.t = "null" -> <<"n", "u", "l", "l">>
    [] x.t = "true" -> <<"t", "r", "u", "e">>
    [] x.t = "false" -> <<"f", "a", "l", "s", "e">>
    [] x.t = "list" ->
         <<"[">> \o JoinWith([i \in 1..Len(x.v) |-> Dumps(x.v[i], sp)], <<",">> \o sp) \o <<"]">>
    [] x.t = "dict" ->
         <<"{">> \o JoinWith([i \in 1..Len(x.v) |->
                                DumpsStr(x.v[i].k) \o <<":">> \o sp \o Dumps(x.v[i].val, sp)],
                             <<",">> \o sp) \o <<"}">>

\* ------------------------------------------------- the response normalizer

KEYWORD == <<"k", "e", "y", "w", "o", "r", "d">>

QUOTE == <<"q", "u", "o", "t", "e">>

Card(kw, qt) == [keyword |-> kw, quote |-> qt]

\* Unwrap with the text cut at the first closing delimiter instead of the last.
UnwrapAtFirstFence(text) ==
  IF StartsWith(text, FENCE)
  THEN LET parts == SplitFirst(text, "\n")
       IN  IF Len(parts) < 2 THEN [ok |-> FALSE, text |-> <<>>]
           ELSE LET at == {i \in 1..Len(parts[2]) : OccursAt(parts[2], FENCE, i)}
                IN  [ok |-> TRUE,
                     text |-> IF at = {} THEN parts[2] ELSE SubSeq(parts[2], 1, SetMin(at) - 1)]
  ELSE [ok |-> TRUE, text |-> text]

\* Lines 213-217: the fence removed.  ok is FALSE when text.split("\n", 1)[1]
\* raises IndexError, the text having no line break.
Unwrap(text) ==
  IF StartsWith(text, FENCE)
  THEN LET parts == SplitFirst(text, "\n")
       IN  IF Len(parts) < 2 THEN [ok |-> FALSE, text |-> <<>>]
           ELSE [ok |-> TRUE, text |-> RSplitHead(parts[2], FENCE)]
  ELSE [ok |-> TRUE, text |-> text]

\* item.get(key, ""): the value under key, the empty str when there is none.
DictGet(d, key) ==
  IF \E i \in 1..Len(d.v) : d.v[i].k = key
  THEN (d.v[CHOOSE i \in 1..Len(d.v) : d.v[i].k = key]).val
  ELSE V("str", <<>>)

\* DictItemCards with the quote left out of the card.
DictItemCardsWithoutQuote(item) ==
  LET kw == DictGet(item, KEYWORD)
      qt == DictGet(item, QUOTE)
  IN  IF kw.t # "str" \/ qt.t # "str" THEN [ok |-> FALSE, cards |-> <<>>]
      ELSE IF Strip(kw.v) # <<>>
           THEN [ok |-> TRUE, cards |-> <<Card(Strip(kw.v), <<>>)>>]
           ELSE [ok |-> TRUE, cards |-> <<>>]

\* Lines 223-226, one dict element: ok is FALSE when .strip() raises
\* AttributeError, the keyword or the quote not being a str.
DictItemCards(item) ==
  LET kw == DictGet(item, KEYWORD)
      qt == DictGet(item, QUOTE)
  IN  IF kw.t # "str" \/ qt.t # "str" THEN [ok |-> FALSE, cards |-> <<>>]
      ELSE IF Strip(kw.v) # <<>>
           THEN [ok |-> TRUE, cards |-> <<Card(Strip(kw.v), Strip(qt.v))>>]
           ELSE [ok |-> TRUE, cards |-> <<>>]

\* Lines 227-228, one str element: appended whatever is left of it.
StrItemCards(item) == <<Card(Strip(item.v), <<>>)>>

RECURSIVE ListCards(_, _, _)
\* Lines 221-228: the loop over the parsed list, from element i on, with the
\* cards appended so far.
ListCards(items, i, acc) ==
  IF i > Len(items) THEN [ok |-> TRUE, cards |-> acc]
  ELSE IF items[i].t = "dict" THEN
         LET r == DictItemCards(items[i])
         IN  IF r.ok THEN ListCards(items, i + 1, acc \o r.cards)
             ELSE [ok |-> FALSE, cards |-> <<>>]
  ELSE IF items[i].t = "str" THEN ListCards(items, i + 1, acc \o StrItemCards(items[i]))
  ELSE ListCards(items, i + 1, acc)

\* WrapCards with an empty keyword dropped, as the dict branch drops it.
WrapCardsDroppingEmpty(parsed) ==
  IF Strip(PyStr(parsed)) # <<>> THEN <<Card(Strip(PyStr(parsed)), <<>>)>> ELSE <<>>

\* Lines 231-236: a parsed value that is no list, wrapped.
WrapCards(parsed) == <<Card(Strip(PyStr(parsed)), <<>>)>>

\* Line 244: "." in line[:3].
HasNumberPrefix(line) == \E i \in 1..Len(line) : i <= 3 /\ line[i] = "."

\* Lines 240-247, one line of the fallback.
LineCards(line0) ==
  LET line1 == Strip(line0)
  IN  IF line1 = <<>> THEN <<>>
      ELSE LET line2 == Strip(LStrip(line1, BulletChars))
               line3 == IF HasNumberPrefix(line2)
                        THEN Strip(SplitFirst(line2, ".")[2]) ELSE line2
           IN  IF line3 # <<>> THEN <<Card(line3, <<>>)>> ELSE <<>>

\* FallbackSource reading the unwrapped text.
FallbackSourceUnwrapped(raw_output, text) == text

\* Line 239: the text whose lines the fallback reads.
FallbackSource(raw_output, text) == raw_output

RECURSIVE FallbackCards(_, _, _)
\* Lines 239-247: the loop over the lines, from line i on.
FallbackCards(lines, i, acc) ==
  IF i > Len(lines) THEN acc
  ELSE FallbackCards(lines, i + 1, acc \o LineCards(lines[i]))

\* Lines 220-236: the cards of a value that json.loads returned.
StructuredCards(parsed) ==
  IF parsed.t = "list" THEN ListCards(parsed.v, 1, <<>>)
  ELSE [ok |-> TRUE, cards |-> WrapCards(parsed)]

\* TakesFallback with the fallback also taken when the structured result is
\* empty.
TakesFallbackWhenEmpty(r, cards) == ~r.ok \/ cards = <<>>

\* Line 237: whether the except clause runs, given what json.loads did and
\* the cards appended since.
TakesFallback(r, cards) == ~r.ok

\* Lines 209-247.  exc names the exception that leaves the block ("" when
\* none does); path the branch that filled keywords; text what json.loads was
\* given and parsed what it returned, when it was reached.
normalize(raw_output) ==
  LET stripped == Strip(raw_output)
      u        == Unwrap(stripped)
      r        == IF u.ok THEN loads(u.text) ELSE DecodeError
      st       == IF u.ok /\ r.ok THEN StructuredCards(r.v) ELSE [ok |-> TRUE, cards |-> <<>>]
      base     == [exc |-> "", path |-> "structured", loaded |-> FALSE, text |-> <<>>,
                   parsed |-> V("null", <<>>), keywords |-> <<>>]
  IN  IF ~u.ok THEN [base EXCEPT !.exc = "IndexError", !.path = "none"]
      ELSE IF r.ok /\ ~st.ok
        THEN [base EXCEPT !.exc = "AttributeError", !.path = "none", !.loaded = TRUE,
                          !.text = u.text, !.parsed = r.v]
      ELSE IF TakesFallback(r, st.cards)
        THEN [base EXCEPT !.path = "fallback", !.text = u.text, !.loaded = r.ok,
                          !.parsed = IF r.ok THEN r.v ELSE V("null", <<>>),
                          !.keywords = (IF r.ok THEN st.cards ELSE <<>>) \o
                             FallbackCards(SplitLines(FallbackSource(raw_output, u.text)), 1, <<>>)]
      ELSE [base EXCEPT !.loaded = TRUE, !.text = u.text, !.parsed = r.v,
                        !.keywords = st.cards]

\* ------------------------------------------------------------ build_prompt

\* Lines 23-105, the texts abridged: what build_prompt reads of each phase.
PHASE_CONFIG ==
  [saguru   |-> [label |-> "1 saguru", card_type |-> "facts, observations, feelings",
                 count_min |-> 6, count_max |-> 10,
                 examples |-> <<"heavy bag", "unused textbook", "hot classroom">>,
                 aim |-> "many situation cards"],
   kizuku   |-> [label |-> "2 kizuku", card_type |-> "core problem or question",
                 count_min |-> 3, count_max |-> 5,
                 examples |-> <<"reasons not sorted out", "cannot judge what to bring">>,
                 aim |-> "problem candidates as questions"],
   hirameku |-> [label |-> "3 hirameku", card_type |-> "solution ideas",
                 count_min |-> 8, count_max |-> 12,
                 examples |-> <<"checklist per weekday", "textbooks left in lockers", "weigh the bag">>,
                 aim |-> "widen the ideas"],
   tsukuru  |-> [label |-> "4 tsukuru", card_type |-> "summary and concretisation",
                 count_min |-> 3, count_max |-> 7,
                 examples |-> <<"a nap box", "fits on the desk", "dark inside", "light material">>,
                 aim |-> "look, size, function, feature"],
   tamesu   |-> [label |-> "5 tamesu", card_type |-> "good, better, next",
                 count_min |-> 4, count_max |-> 6,
                 examples |-> <<"easy private space", "box too large", "smaller foldable board">>,
                 aim |-> "fill the feedback sheet"]]

\* PhaseConfigOf with another phase as the default.
PhaseConfigOfDefaultKizuku(phase) ==
  IF phase \in DOMAIN PHASE_CONFIG THEN PHASE_CONFIG[phase] ELSE PHASE_CONFIG["kizuku"]

\* Lines 135-137: the configuration of the phase, that of "saguru" when the
\* phase is no key of PHASE_CONFIG.
PhaseConfigOf(phase) ==
  IF phase \in DOMAIN PHASE_CONFIG THEN PHASE_CONFIG[phase] ELSE PHASE_CONFIG["saguru"]

\* Lines 130-171: the prompt, as the sequence of the template's fixed texts
\* and of the values it interpolates.
build_prompt(memo, phase) ==
  LET cfg == PhaseConfigOf(phase)
      examples_text == Concat([i \in 1..Len(cfg.examples) |-> <<"・", cfg.examples[i], "\n">>])
  IN  <<"facilitator; phase:", cfg.label,
        "cards wanted:", cfg.count_min, "to", cfg.count_max,
        "card type:", cfg.card_type,
        "aim:", cfg.aim,
        "[output format] JSON array only; {keyword, quote}; plain style; no prose",
        "[examples]", examples_text,
        "[notes]", memo, "\n">>

\* ------------------------------------------------------------------ inputs

\* The notes a caller sends.
Memos == {"notes one", "notes two"}

\* The phase identifiers a caller sends: known keys, and strings that are none.
Phases == {"saguru", "tamesu", "mystery"}

\* The JSON bodies of extract_keywords requests: dicts over the keys memo and
\* phase, the empty dict among them.
RequestBodies ==
  UNION {{[k \in D |-> IF k = "memo" THEN m ELSE p] : m \in Memos, p \in Phases} :
         D \in SUBSET {"memo", "phase"}}

Str(s) == V("str", s)

Dict2(k1, v1, k2, v2) == V("dict", <<[k |-> k1, val |-> v1], [k |-> k2, val |-> v2]>>)

Dict1(k1, v1) == V("dict", <<[k |-> k1, val |-> v1]>>)

\* Elements the remote model puts in its array: well-formed cards, cards to
\* trim, cards without keyword, fields that are no strings, bare strings and
\* values of other types.
Items ==
  { Dict2(KEYWORD, Str(<<"a">>), QUOTE, Str(<<"b", " ", "c">>)),
    Dict2(KEYWORD, Str(<<" ", "a", " ">>), QUOTE, Str(<<" ">>)),
    Dict1(QUOTE, Str(<<"b">>)),
    Dict1(KEYWORD, Str(<<" ">>)),
    Dict1(KEYWORD, V("int", <<"1">>)),
    Str(<<"x">>),
    Str(<<" ">>),
    V("null", <<>>) }

\* Values that are no list.
NonLists ==
  { Dict1(KEYWORD, Str(<<"s", "o", "l", "o">>)),
    Str(<<>>),
    Str(<<" ", "x", "'", " ">>),
    V("int", <<"1", "2">>),
    V("null", <<>>),
    V("true", <<>>) }

\* The sequences over S of length at most n.
SeqsUpTo(S, n) == UNION {[1..k -> S] : k \in 0..n}

\* The JSON documents the remote model sends.
Documents ==
  {Dumps(V("list", items), <<" ">>) : items \in SeqsUpTo(Items, MaxItems)}
    \cup {Dumps(x, <<" ">>) : x \in NonLists}

JSONTAG == <<"j", "s", "o", "n">>

\* A document as the remote model sends it: bare, fenced with and without a
\* language tag, padded, with the fence left open, with the fence on one
\* line, after a line of prose, and followed by a second closing delimiter.
Wrappings(doc) ==
  { doc,
    FENCE \o JSONTAG \o <<"\n">> \o doc \o <<"\n">> \o FENCE,
    FENCE \o <<"\n">> \o doc \o <<"\n">> \o FENCE,
    <<" ", "\n">> \o FENCE \o JSONTAG \o <<"\n">> \o doc \o <<"\n">> \o FENCE \o <<"\n", " ">>,
    FENCE \o JSONTAG \o <<"\n">> \o doc,
    FENCE \o doc \o FENCE,
    <<"o", "k", ":", "\n">> \o FENCE \o <<"\n">> \o doc \o <<"\n">> \o FENCE,
    FENCE \o <<"\n">> \o doc \o FENCE \o <<" ", "x">> \o FENCE }

\* Lines of free text: blank, bulleted, a bullet alone, numbered, a number
\* alone, with a period after the third character, ending in a carriage return.
FreeLines ==
  { <<" ", " ">>, <<"-", " ", "a">>, <<"・", "a", " ", "b">>, <<"*", " ">>,
    <<"1", ".", " ", "a">>, <<"2", ".">>, <<"a", "b", "c", ".", "d">>, <<"x", "\r">> }

\* Free text of at most MaxLines lines.
FreeTexts == {JoinWith(ls, <<"\n">>) : ls \in SeqsUpTo(FreeLines, MaxLines)}

\* response.choices[0].message.content when it is None.
NoContent == <<"<None>">>

\* What the remote model answers when it is not echoing a card list.
Contents == UNION {Wrappings(doc) : doc \in Documents} \cup FreeTexts \cup {NoContent}

\* Cards as the normalizer emits them: keyword not empty, both fields trimmed.
TrimmedCards ==
  { Card(<<"a">>, <<>>), Card(<<"a", " ", "b">>, <<"b", " ", "c">>),
    Card(<<"・">>, <<"・", "x">>), Card(<<"\"", "\\">>, <<"'">>) }

\* The card lists the remote model echoes.
CardLists == SeqsUpTo(TrimmedCards, MaxItems)

\* The keywords value of a response body, as a value to serialize.
CardsValue(cards) ==
  V("list", [i \in 1..Len(cards) |->
               Dict2(KEYWORD, Str(cards[i].keyword), QUOTE, Str(cards[i].quote))])

\* The text after "," and ":" in a serialization: one space, or none.
Separators == {<<" ">>, <<>>}

\* The multipart forms of transcribe requests: no audio part, an audio part
\* with an empty filename, with an extension, without one.
Uploads ==
  { [has_audio |-> FALSE, filename |-> <<>>],
    [has_audio |-> TRUE, filename |-> <<>>],
    [has_audio |-> TRUE, filename |-> <<"a", ".", "m", "4", "a">>],
    [has_audio |-> TRUE, filename |-> <<"r", "e", "c">>],
    [has_audio |-> TRUE, filename |-> <<".", "w", "a", "v">>] }

\* What the speech-to-text call returns as response.text (None is NoContent).
Transcripts == {<<" ", "h", "i", "\n">>, <<"h", "i">>, <<>>, NoContent}

\* ------------------------------------------------------------------- state

VARIABLES
  pc,          \* where the request is: "idle", "calling", "transcribing", "done"
  route,       \* the handler serving it: "", "extract_keywords", "transcribe"
  data,        \* extract_keywords: request.get_json()
  prompt,      \* extract_keywords: the prompt sent to the remote model
  calls,       \* remote calls issued for the request (chat and speech-to-text)
  sent,        \* what the remote model answered: free content, or a card list
  raw_output,  \* extract_keywords: line 207
  norm,        \* extract_keywords: the outcome of lines 209-247
  upload,      \* transcribe: the multipart form
  tmp_path,    \* transcribe: line 273
  files,       \* the temporary files on disk
  response     \* the HTTP response, once the request has ended

vars == <<pc, route, data, prompt, calls, sent, raw_output, norm, upload, tmp_path,
          files, response>>

\* No response yet.
NoResponse ==
  [status |-> 0, kind |-> "none", ok |-> FALSE, error |-> "", keywords |-> <<>>,
   phase |-> "", text |-> <<>>]

\* jsonify({"ok": False, "error": error}), status.
ErrorResponse(status, error) ==
  [NoResponse EXCEPT !.status = status, !.kind = "json", !.error = error]

\* What Flask answers when an exception leaves the handler: a 500 page, no
\* JSON body.
UnhandledError(exc) ==
  [NoResponse EXCEPT !.status = 500, !.kind = "unhandled", !.error = exc]

\* Line 249.
KeywordsResponse(keywords, phase) ==
  [NoResponse EXCEPT !.status = 200, !.kind = "json", !.ok = TRUE,
                     !.keywords = keywords, !.phase = phase]

\* Line 292.
TextResponse(text) ==
  [NoResponse EXCEPT !.status = 200, !.kind = "json", !.ok = TRUE, !.text = text]

\* The outcome of the normalizer before it has run.
NotNormalized ==
  [exc |-> "", path |-> "none", loaded |-> FALSE, text |-> <<>>,
   parsed |-> V("null", <<>>), keywords |-> <<>>]

NotSent == [kind |-> "none", cards |-> <<>>]

Init ==
  /\ pc = "idle"
  /\ route = ""
  /\ data = <<>>
  /\ prompt = <<>>
  /\ calls = 0
  /\ sent = NotSent
  /\ raw_output = <<>>
  /\ norm = NotNormalized
  /\ upload = [has_audio |-> FALSE, filename |-> <<>>]
  /\ tmp_path = <<>>
  /\ files = {}
  /\ response = NoResponse

\* ------------------------------------------------------- extract_keywords

\* Line 184: not data or "memo" not in data.
LacksMemo(d) == DOMAIN d = {} \/ "memo" \notin DOMAIN d

\* Line 188: data.get("phase", "saguru").
PhaseOf(d) == IF "phase" \in DOMAIN d THEN d.phase ELSE "saguru"

\* Lines 183-185: a request without memo is answered 400.
ExtractKeywordsReject(d) ==
  /\ pc = "idle"
  /\ LacksMemo(d)
  /\ route' = "extract_keywords"
  /\ data' = d
  /\ response' = ErrorResponse(400, "no memo field")
  /\ pc' = "done"
  /\ UNCHANGED <<prompt, calls, sent, raw_output, norm, upload, tmp_path, files>>

\* Lines 183-193: the prompt is built and the remote call issued.
ExtractKeywordsCall(d) ==
  /\ pc = "idle"
  /\ ~LacksMemo(d)
  /\ route' = "extract_keywords"
  /\ data' = d
  /\ prompt' = build_prompt(d.memo, PhaseOf(d))
  /\ calls' = calls + 1
  /\ pc' = "calling"
  /\ UNCHANGED <<sent, raw_output, norm, upload, tmp_path, files, response>>

\* Lines 204-205: the remote call raised.
ChatFails ==
  /\ pc = "calling"
  /\ route = "extract_keywords"
  /\ response' = ErrorResponse(500, "OpenAI API error")
  /\ pc' = "done"
  /\ UNCHANGED <<route, data, prompt, calls, sent, raw_output, norm, upload, tmp_path, files>>

\* EchoedPhase with the phase resolved as build_prompt resolves it.
EchoedPhaseResolved(d) ==
  IF PhaseOf(d) \in DOMAIN PHASE_CONFIG THEN PhaseOf(d) ELSE "saguru"

\* Line 249: the phase written in the response.
EchoedPhase(d) == PhaseOf(d)

\* Lines 207-249: the remote call returned content; the normalizer runs and
\* the response is written, unless an exception leaves the handler.
Complete(content) ==
  /\ raw_output' = IF content = NoContent THEN <<>> ELSE content
  /\ norm' = normalize(raw_output')
  /\ response' = IF norm'.exc = "" THEN KeywordsResponse(norm'.keywords, EchoedPhase(data))
                 ELSE UnhandledError(norm'.exc)
  /\ pc' = "done"
  /\ UNCHANGED <<route, data, prompt, calls, upload, tmp_path, files>>

\* The remote model answers with content of its own.
ChatReturns(content) ==
  /\ pc = "calling"
  /\ route = "extract_keywords"
  /\ sent' = [kind |-> "content", cards |-> <<>>]
  /\ Complete(content)

\* The remote model answers with the serialization of a card list.
ChatReturnsCards(cards, sp) ==
  /\ pc = "calling"
  /\ route = "extract_keywords"
  /\ sent' = [kind |-> "cards", cards |-> cards]
  /\ Complete(Dumps(CardsValue(cards), sp))

\* -------------------------------------------------------------- transcribe

\* os.path.splitext(filename)[1]: from the last period on, unless only
\* periods precede it.
Splitext1(filename) ==
  LET dots == IndicesOf(filename, ".")
  IN  IF dots = {} THEN <<>>
      ELSE IF \E i \in 1..(SetMax(dots) - 1) : filename[i] # "."
           THEN From(filename, SetMax(dots))
      ELSE <<>>

\* Line 271: the suffix of the temporary file.
Suffix(filename) ==
  IF Splitext1(filename) # <<>> THEN Splitext1(filename) ELSE <<".", "w", "e", "b", "m">>

\* Lines 261-266: no audio part, or an empty filename, is answered 400.
TranscribeReject(form) ==
  /\ pc = "idle"
  /\ ~form.has_audio \/ form.filename = <<>>
  /\ route' = "transcribe"
  /\ upload' = form
  /\ response' = ErrorResponse(400, IF ~form.has_audio THEN "no audio file" ELSE "empty filename")
  /\ pc' = "done"
  /\ UNCHANGED <<data, prompt, calls, sent, raw_output, norm, tmp_path, files>>

\* Lines 269-278: the temporary file is created (delete=False) and the upload
\* saved into it; when the save raises, the exception leaves the handler from
\* inside the with block, before the try of line 276 is entered.  Otherwise
\* the speech-to-text call is issued.
TranscribeSave(form, saved) ==
  /\ pc = "idle"
  /\ form.has_audio /\ form.filename # <<>>
  /\ route' = "transcribe"
  /\ upload' = form
  /\ tmp_path' = <<"t", "m", "p">> \o Suffix(form.filename)
  /\ files' = files \cup {tmp_path'}
  /\ IF saved
     THEN /\ calls' = calls + 1
          /\ pc' = "transcribing"
          /\ UNCHANGED response
     ELSE /\ response' = UnhandledError("OSError")
          /\ pc' = "done"
          /\ UNCHANGED calls
  /\ UNCHANGED <<data, prompt, sent, raw_output, norm>>

\* Lines 286-290: os.remove(tmp_path); a file that is not there raises
\* OSError, which is passed over.
Remove(fs, path) == fs \ {path}

\* Lines 283, 286-292: the call returned; the file is removed and the text
\* answered.
SpeechReturns(text) ==
  /\ pc = "transcribing"
  /\ sent' = [kind |-> "content", cards |-> <<>>]
  /\ raw_output' = text
  /\ files' = Remove(files, tmp_path)
  /\ response' = TextResponse(Strip(IF text = NoContent THEN <<>> ELSE text))
  /\ pc' = "done"
  /\ UNCHANGED <<route, data, prompt, calls, norm, upload, tmp_path>>

\* Lines 284-290: the call raised; the file is removed and the error answered.
SpeechFails ==
  /\ pc = "transcribing"
  /\ files' = Remove(files, tmp_path)
  /\ response' = ErrorResponse(500, "transcribe error")
  /\ pc' = "done"
  /\ UNCHANGED <<route, data, prompt, calls, sent, raw_output, norm, upload, tmp_path>>

\* ------------------------------------------------------------ specification

Next ==
  \/ \E d \in RequestBodies : ExtractKeywordsReject(d)
  \/ \E d \in RequestBodies : ExtractKeywordsCall(d)
  \/ ChatFails
  \/ \E content \in Contents : ChatReturns(content)
  \/ \E cards \in CardLists, sp \in Separators : ChatReturnsCards(cards, sp)
  \/ \E form \in Uploads : TranscribeReject(form)
  \/ \E form \in Uploads, saved \in BOOLEAN : TranscribeSave(form, saved)
  \/ \E text \in Transcripts : SpeechReturns(text)
  \/ SpeechFails

Spec == Init /\ [][Next]_vars

\* ------------------------------------------------------------------ claims

\* The request is an extract_keywords request whose remote call returned, so
\* that lines 207-249 ran, and it has ended.
Normalized == pc = "done" /\ route = "extract_keywords" /\ sent.kind # "none"

\* C1: the normalizer never raises: whatever the remote model answered, the
\* request ends with a list of cards and the response {ok: true, ...}, never
\* with an unhandled error.
C1_NormalizerNeverRaises ==
  Normalized => norm.exc = "" /\ response.kind = "json" /\ response.ok

\* C2: every card of the answered list has a keyword that is not empty and is
\* trimmed, whichever branch emitted it.
C2_KeywordsNotEmpty ==
  Normalized =>
    \A i \in 1..Len(response.keywords) :
      /\ response.keywords[i].keyword # <<>>
      /\ response.keywords[i].keyword = Strip(response.keywords[i].keyword)

\* C3: once json.loads has been reached, the line fallback has run if and only
\* if json.loads raised; when it returned a value and the request is
\* answered, the answer holds the cards of the structured branch and no
\* others, even when there are none.
C3_FallbackIffParseFails ==
  (Normalized /\ norm.exc # "IndexError") =>
    /\ (norm.path = "fallback") <=> ~norm.loaded
    /\ (norm.loaded /\ norm.exc = "") =>
         /\ response.ok
         /\ response.keywords = StructuredCards(norm.parsed).cards

\* C3's case: the text parsed as JSON and gave no card, its lines would have
\* given one, and the empty list is what is answered.
C3_Witness ==
  /\ Normalized
  /\ norm.loaded
  /\ norm.path = "structured"
  /\ response.ok
  /\ response.keywords = <<>>
  /\ FallbackCards(SplitLines(raw_output), 1, <<>>) # <<>>

\* What follows the first line of the trimmed answer t (nothing when t is a
\* single line).
C4_Rest(t) ==
  IF \E i \in 1..Len(t) : t[i] = "\n"
  THEN From(t, 1 + CHOOSE i \in 1..Len(t) : t[i] = "\n" /\ \A j \in 1..(i - 1) : t[j] # "\n")
  ELSE <<>>

\* The indices of rest at which a closing delimiter starts.
C4_Closings(rest) ==
  {i \in 1..(Len(rest) - 2) : rest[i] = BQ /\ rest[i + 1] = BQ /\ rest[i + 2] = BQ}

\* The trimmed answer t is wrapped in a fenced block: it begins with the
\* delimiter and what follows the opening line holds a closing delimiter.
C4_Wrapped(t) == StartsWith(t, FENCE) /\ C4_Closings(C4_Rest(t)) # {}

\* The interior of the fenced block t: what lies between the opening line and
\* the last closing delimiter.
C4_Interior(t) ==
  LET rest == C4_Rest(t)
      last == CHOOSE i \in C4_Closings(rest) : \A j \in C4_Closings(rest) : j <= i
  IN  SubSeq(rest, 1, last - 1)

C5_RoundTrip ==
  (pc = "done" /\ sent.kind = "cards") =>
    /\ response.ok
    /\ response.keywords = sent.cards

\* C5's case: a list of two cards, one with an escaped character in its
\* keyword, came back as it was sent.
C5_Witness ==
  /\ pc = "done"
  /\ sent.kind = "cards"
  /\ Len(sent.cards) = 2
  /\ sent.cards[1].keyword = <<"\"", "\\">>
  /\ sent.cards[2].keyword = <<"・">>
  /\ response.keywords = sent.cards

\* C6: when json.loads returned a value that is no list, exactly one card is
\* answered: its keyword is the trimmed str() of the value, its quote is empty.
C6_NonListWrapped ==
  (Normalized /\ norm.loaded /\ norm.parsed.t # "list") =>
    /\ response.ok
    /\ Len(response.keywords) = 1
    /\ response.keywords[1].keyword = Strip(PyStr(norm.parsed))
    /\ response.keywords[1].quote = <<>>

\* C6's case: the answer was the JSON string "", wrapped into one card.
C6_Witness ==
  /\ Normalized
  /\ norm.loaded
  /\ norm.parsed = V("str", <<>>)
  /\ Len(response.keywords) = 1

\* What C7 says is left of a line: the line trimmed, its leading dashes,
\* asterisks and "・" removed, trimmed, and, when one of its first three
\* characters is a period, cut after its first period and trimmed again.
C7_Remainder(line) ==
  LET t     == Strip(line)
      u     == Strip(LStrip(t, {"-", "*", "・"}))
      early == {i \in 1..Len(u) : i <= 3 /\ u[i] = "."}
  IN  IF early = {} THEN u ELSE Strip(From(u, SetMin(early) + 1))

\* C7: in the fallback the answered cards are, in order, one card for each
\* line of the raw answer of which something is left, with what is left as
\* keyword and an empty quote.
C7_FallbackLines ==
  (Normalized /\ norm.path = "fallback") =>
    LET lines == SplitLines(raw_output)
        kept  == {i \in 1..Len(lines) : C7_Remainder(lines[i]) # <<>>}
        nth(j) == CHOOSE i \in kept : Cardinality({m \in kept : m <= i}) = j
    IN  /\ response.ok
        /\ Len(response.keywords) = Cardinality(kept)
        /\ \A j \in 1..Len(response.keywords) :
             response.keywords[j] = Card(C7_Remainder(lines[nth(j)]), <<>>)

\* C7's case: a fenced answer that is no JSON went through the fallback,
\* which read the raw lines, the opening delimiter's among them.
C7_Witness ==
  /\ Normalized
  /\ norm.path = "fallback"
  /\ StartsWith(raw_output, FENCE)
  /\ Len(response.keywords) >= 2
  /\ response.keywords[1].keyword = FENCE

\* C8: for a phase that is none of the five configured keys the prompt is the
\* one build_prompt gives for "saguru" and the same notes.
C8_UnknownPhaseIsSaguru ==
  (route = "extract_keywords" /\ ~LacksMemo(data)
     /\ PhaseOf(data) \notin {"saguru", "kizuku", "hirameku", "tsukuru", "tamesu"}) =>
    /\ prompt # <<>>
    /\ prompt = build_prompt(data.memo, "saguru")

\* C8's case: a prompt was built for the phase "mystery", and the prompt of a
\* known phase other than "saguru" differs from it.
C8_Witness ==
  /\ route = "extract_keywords"
  /\ ~LacksMemo(data)
  /\ PhaseOf(data) = "mystery"
  /\ prompt # <<>>
  /\ prompt # build_prompt(data.memo, "tamesu")

\* C9: an extract_keywords request issues at most one remote call; without
\* memo it is answered ok:false before any call; a failed call is answered
\* ok:false and the normalizer does not run; an ok:true response follows a
\* call that returned, and carries the caller's phase and the normalizer's
\* cards.
C9_SingleCall ==
  route = "extract_keywords" =>
    /\ calls <= 1
    /\ (pc = "done" /\ LacksMemo(data)) =>
         /\ calls = 0
         /\ response = ErrorResponse(400, "no memo field")
    /\ (pc = "done" /\ ~LacksMemo(data) /\ sent.kind = "none") =>
         /\ calls = 1
         /\ response.kind = "json" /\ ~response.ok /\ response.status = 500
         /\ norm = NotNormalized
    /\ response.ok =>
         /\ calls = 1
         /\ sent.kind # "none"
         /\ response.status = 200
         /\ response.keywords = norm.keywords
         /\ response.phase = (IF "phase" \in DOMAIN data THEN data.phase ELSE "saguru")

\* C9's case: a request with a phase that is no configured key was answered
\* ok:true after its one call.
C9_Witness ==
  /\ route = "extract_keywords"
  /\ pc = "done"
  /\ calls = 1
  /\ response.ok
  /\ "phase" \in DOMAIN data
  /\ data.phase = "mystery"
  /\ response.phase = "mystery"

\* C10: when a transcribe request has ended, no temporary file is left on
\* disk, whatever the outcome.
C10_TempFileRemoved ==
  (pc = "done" /\ route = "transcribe") => files = {}

====
